---------------------------- MODULE Spec2Model ----------------------------
(***************************************************************************)
(* Model of dashboard.py: one Streamlit script run ("cycle") that loads    *)
(* the sensor sheet, keeps the latest session, resolves a wind vector      *)
(* from METAR reports or the wind widgets, extracts emitters and runs the  *)
(* plume simulation.                                                       *)
(*                                                                         *)
(* Units.  Timestamps: seconds.  Wind speed: 1/100 m/s.  PM2.5: 1/10       *)
(* ug/m3.  Slider weights: 1/10.  Hazard scores are exact fractions        *)
(* [n, d]; inside simulate_plume a strength is a fixed-point number in     *)
(* 1/10000 (the float arithmetic of the script is not modelled bit for     *)
(* bit).  Text is a tuple of one-character strings.  A value that may be   *)
(* absent (None, NaN, NaT) is a tuple: << >> when absent, <<v>> when v.    *)
(***************************************************************************)
EXTENDS Integers, Sequences, FiniteSets, TLC

None == << >>
Some(v) == <<v>>
IsSome(x) == x # << >>
Val(x) == x[1]

Max2(a, b) == IF a >= b THEN a ELSE b

RECURSIVE GCD(_, _)
GCD(a, b) == IF b = 0 THEN a ELSE GCD(b, a % b)

RECURSIVE Pow2(_)
Pow2(q) == IF q = 0 THEN 1 ELSE 2 * Pow2(q - 1)

RECURSIVE Concat(_)
\* The concatenation of a tuple of texts.
Concat(parts) == IF parts = << >> THEN << >> ELSE Head(parts) \o Concat(Tail(parts))

(***************************************************************************)
(* Exact fractions with a positive denominator, kept in lowest terms.      *)
(***************************************************************************)
Frac(n, d) == LET g == GCD(IF n < 0 THEN -n ELSE n, d) IN [n |-> n \div g, d |-> d \div g]
FAdd(x, y) == Frac(x.n * y.d + y.n * x.d, x.d * y.d)
FMul(x, y) == Frac(x.n * y.n, x.d * y.d)
FGe(x, y) == x.n * y.d >= y.n * x.d
FGt(x, y) == x.n * y.d > y.n * x.d
FZero == Frac(0, 1)

(***************************************************************************)
(* parse_wind_from_metar: the regular expression                           *)
(*     \b(VRB|\d{3})(\d{2,3})(G\d{2,3})?KT\b                               *)
(* matched the way re.search does: leftmost start, then the greedy         *)
(* alternatives in order.                                                  *)
(***************************************************************************)
Digits == {"0", "1", "2", "3", "4", "5", "6", "7", "8", "9"}
Upper == {"A", "B", "C", "D", "E", "F", "G", "H", "I", "J", "K", "L", "M",
          "N", "O", "P", "Q", "R", "S", "T", "U", "V", "W", "X", "Y", "Z"}
WordChars == Digits \cup Upper \cup {"_"}

DigitVal(c) == CASE c = "0" -> 0 [] c = "1" -> 1 [] c = "2" -> 2 [] c = "3" -> 3
                 [] c = "4" -> 4 [] c = "5" -> 5 [] c = "6" -> 6 [] c = "7" -> 7
                 [] c = "8" -> 8 [] c = "9" -> 9

RECURSIVE ToInt(_)
\* int(s) of a text of decimal digits.
ToInt(s) == IF s = << >> THEN 0 ELSE 10 * ToInt(SubSeq(s, 1, Len(s) - 1)) + DigitVal(s[Len(s)])

\* Whether position i of s (1-based, may be outside s) holds a \w character.
IsWordAt(s, i) == i >= 1 /\ i <= Len(s) /\ s[i] \in WordChars
\* \b between positions i-1 and i.
Boundary(s, i) == IsWordAt(s, i - 1) # IsWordAt(s, i)
AllDigits(s, i, n) == i + n - 1 <= Len(s) /\ \A j \in i..(i + n - 1) : s[j] \in Digits
LitAt(s, i, lit) == i + Len(lit) - 1 <= Len(s) /\ SubSeq(s, i, i + Len(lit) - 1) = lit

\* The greedy alternatives of (\d{2,3})(G\d{2,3})?, in the order the matcher
\* tries them: <<speed digits, gust digits>>, gust digits 0 meaning no gust group.
MatchOrder == << <<3, 3>>, <<3, 2>>, <<3, 0>>, <<2, 3>>, <<2, 2>>, <<2, 0>> >>

\* Whether the pattern matches s from position i with alternative alt.
MatchesAt(s, i, alt) ==
    LET j == i + 3
        g == j + alt[1]
        k == IF alt[2] = 0 THEN g ELSE g + 1 + alt[2]
    IN  /\ Boundary(s, i)
        /\ (LitAt(s, i, <<"V", "R", "B">>) \/ AllDigits(s, i, 3))
        /\ AllDigits(s, j, alt[1])
        /\ (alt[2] = 0 \/ (LitAt(s, g, <<"G">>) /\ AllDigits(s, g + 1, alt[2])))
        /\ LitAt(s, k, <<"K", "T">>)
        /\ Boundary(s, k + 2)

\* re.search: the match at the leftmost start, first alternative that succeeds;
\* None when there is none, else Some([d |-> group 1, s |-> group 2]).
ReSearch(s) ==
    LET hits == {i \in 1..Len(s) : \E a \in 1..Len(MatchOrder) : MatchesAt(s, i, MatchOrder[a])}
    IN  IF hits = {} THEN None
        ELSE LET i == CHOOSE x \in hits : \A y \in hits : x <= y
                 a == CHOOSE x \in 1..Len(MatchOrder) :
                          /\ MatchesAt(s, i, MatchOrder[x])
                          /\ \A y \in 1..(x - 1) : ~MatchesAt(s, i, MatchOrder[y])
             IN  Some([d |-> SubSeq(s, i, i + 2),
                       s |-> SubSeq(s, i + 3, i + 2 + MatchOrder[a][1])])

KnotsToMsMutTruncate(kt) == (kt * 514444) \div 10000

\* round(knots * 0.514444, 2), in 1/100 m/s (no tie occurs for 0..999 knots).
KnotsToMs(kt) == (kt * 514444 + 5000) \div 10000

\* parse_wind_from_metar of a report (None or Some(text)): [dir, ms], each
\* None or Some(number).
ParseWind(metar) ==
    IF metar = None \/ Val(metar) = << >> THEN [dir |-> None, ms |-> None]
    ELSE LET m == ReSearch(Val(metar))
         IN  IF m = None THEN [dir |-> None, ms |-> None]
             ELSE [dir |-> IF Val(m).d = <<"V", "R", "B">> THEN None ELSE Some(ToInt(Val(m).d)),
                   ms |-> Some(KnotsToMs(ToInt(Val(m).s)))]

(***************************************************************************)
(* The sheet's rows after lines 44-49: a reading is                        *)
(* [ts, lat, lon, co2, pm], each field None (NaT, NaN) or Some(number).    *)
(***************************************************************************)
HasTimestamp(r) == IsSome(r.ts)
\* df = df.dropna(subset=["Timestamp"])
DropNaT(rows) == SelectSeq(rows, HasTimestamp)

\* (df["Lat"] != 0) & (df["Lon"] != 0); NaN != 0 is True.
GpsKeep(r) == r.lat # Some(0) /\ r.lon # Some(0)
GpsFilter(rows) == SelectSeq(rows, GpsKeep)

\* df.sort_values("Timestamp"): every order of the rows that is ascending in
\* the timestamp (the default sort is not stable, so ties may come out in any order).
SortedOrders(rows) ==
    LET n == Len(rows)
        perms == {f \in [1..n -> 1..n] : \A i, j \in 1..n : i # j => f[i] # f[j]}
        asc == {f \in perms : \A i \in 1..(n - 1) : Val(rows[f[i]].ts) <= Val(rows[f[i + 1]].ts)}
    IN  {[i \in 1..n |-> rows[f[i]]] : f \in asc}

gap_threshold == 120

\* df["Timestamp"].diff().dt.total_seconds().fillna(0), at row i.
TimeDiff(rows, i) == IF i = 1 THEN 0 ELSE Val(rows[i].ts) - Val(rows[i - 1].ts)

BlockIDMutGe(rows, i) == Cardinality({j \in 1..i : TimeDiff(rows, j) >= gap_threshold})

\* (df["TimeDiff"] > gap_threshold).cumsum(), at row i.
BlockID(rows, i) == Cardinality({j \in 1..i : TimeDiff(rows, j) > gap_threshold})

\* df[df["BlockID"] == latest_block_id] of a non-empty sorted frame.
LatestBlock(rows) ==
    LET latest_block_id == BlockID(rows, Len(rows))
        pick[i \in 0..Len(rows)] ==
            IF i = 0 THEN << >>
            ELSE IF BlockID(rows, i) = latest_block_id THEN Append(pick[i - 1], rows[i])
                 ELSE pick[i - 1]
    IN  pick[Len(rows)]

(***************************************************************************)
(* Emitter extraction, lines 508-533.                                      *)
(***************************************************************************)
\* max(1e-6, w_co2 + w_pm), in 1/1000000, of weights in 1/10.
WSum(w_co2, w_pm) == Max2(1, (w_co2 + w_pm) * 100000)
\* w / w_sum
NormW(w, w_sum) == Frac(w * 100000, w_sum)

recent_seconds == 60

TailNMutHead(s, n) == IF Len(s) <= n THEN s ELSE SubSeq(s, 1, n)

\* s.tail(n)
TailN(s, n) == IF Len(s) <= n THEN s ELSE SubSeq(s, Len(s) - n + 1, Len(s))

MaxTs(rows) == CHOOSE t \in {Val(rows[i].ts) : i \in 1..Len(rows)} :
                   \A i \in 1..Len(rows) : Val(rows[i].ts) <= t

\* dd: the rows within recent_seconds of the newest one, else the last 50.
WorkingSubset(rows) ==
    LET cutoff == MaxTs(rows) - recent_seconds
        Recent(r) == Val(r.ts) >= cutoff
        dd == SelectSeq(rows, Recent)
    IN  IF dd = << >> THEN TailN(rows, 50) ELSE dd

ExcessMutNoClip(v, bg) == IF v = None THEN None ELSE Some(Val(v) - bg)

\* (col - bg).clip(lower=0): NaN stays NaN.
Excess(v, bg) == IF v = None THEN None ELSE Some(Max2(0, Val(v) - bg))

\* The hazard column of one row: NaN (None) when either channel is NaN, else
\* w_co2 * co2_excess / 200 + w_pm * pm_excess / 35 with the normalised weights.
Hazard(r, bg_co2, bg_pm, w_co2, w_pm) ==
    LET w_sum == WSum(w_co2, w_pm)
        co2_excess == Excess(r.co2, bg_co2)
        pm_excess == Excess(r.pm, bg_pm)
    IN  IF co2_excess = None \/ pm_excess = None THEN None
        ELSE Some(FAdd(FMul(NormW(w_co2, w_sum), Frac(Val(co2_excess), 200)),
                       FMul(NormW(w_pm, w_sum), Frac(Val(pm_excess), 350))))

global_activation == Frac(8, 100)
point_activation == Frac(1, 10)

\* dd["hazard"].max() >= 0.08: max skips NaN, and NaN >= 0.08 is False.
GlobalActive(dd, bg_co2, bg_pm, w_co2, w_pm) ==
    \E i \in 1..Len(dd) :
        LET h == Hazard(dd[i], bg_co2, bg_pm, w_co2, w_pm)
        IN  IsSome(h) /\ FGe(Val(h), global_activation)

\* The emitters of the session df: rows of dd with hazard > 0.1 and a position,
\* the last 80 of them, as [lat, lon, strength].
Emitters(df, bg_co2, bg_pm, w_co2, w_pm) ==
    LET dd == WorkingSubset(df)
        h(r) == Hazard(r, bg_co2, bg_pm, w_co2, w_pm)
        Ok(r) == IsSome(h(r)) /\ FGt(Val(h(r)), point_activation)
                   /\ IsSome(r.lat) /\ IsSome(r.lon)
        sel == TailN(SelectSeq(dd, Ok), 80)
    IN  IF df = << >> THEN << >>
        ELSE IF GlobalActive(dd, bg_co2, bg_pm, w_co2, w_pm)
        THEN [i \in 1..Len(sel) |-> [lat |-> Val(sel[i].lat), lon |-> Val(sel[i].lon),
                                     strength |-> Val(h(sel[i]))]]
        ELSE << >>

(***************************************************************************)
(* simulate_plume, lines 369-408.  A strength is fixed-point in 1/10000;   *)
(* np.exp is the degree-5 Taylor polynomial after range reduction by       *)
(* ln 2.  A point is [src, k, cw, down, cross, strength]: the emitter's    *)
(* index, the step, the crosswind ray (-5..5 for -2.5..2.5), the downwind  *)
(* distance in cm, the crosswind offset in mm and the strength; the        *)
(* rotation of (down, cross) into a latitude and a longitude is not        *)
(* modelled.                                                               *)
(***************************************************************************)
Ln2 == 6931

\* np.exp(-y / 10000), in 1/10000, for y >= 0.
ExpNeg(y) ==
    LET q == y \div Ln2
        r == y % Ln2
        t5 == 10000 - r \div 5
        t4 == 10000 - (r * t5) \div 40000
        t3 == 10000 - (r * t4) \div 30000
        t2 == 10000 - (r * t3) \div 20000
        t1 == 10000 - (r * t2) \div 10000
    IN  IF q > 20 THEN 0 ELSE t1 \div Pow2(q)

\* float(p["strength"]) of an exact fraction, in 1/10000.
ToFixed(x) == (x.n * 10000) \div x.d

eps == 200

\* s0 * (np.exp(-lam * t) if lam > 0 else 1.0), lam = ln 2 / (half-life * 60).
Decayed(s0, t, decay_half_life_min) ==
    IF decay_half_life_min > 0
    THEN (s0 * ExpNeg((Ln2 * t) \div (decay_half_life_min * 60))) \div 10000
    ELSE s0

\* One point of a step: the ray c of np.linspace(-2.5, 2.5, 11), c in 1..11.
Ray(src, k, c, s0, par) ==
    LET t == k * par.step_s
        s_now == Decayed(s0, t, par.decay_half_life_min)
        down == par.wind_ms * t
        sigma_y == par.base_sigma_m * 100 + (down * par.spread_per_km) \div 1000
    IN  [src |-> src, k |-> k, cw |-> c - 6, down |-> down,
         cross |-> (c - 6) * sigma_y * 5,
         strength |-> (s_now * ExpNeg(1250 * (c - 6) * (c - 6))) \div 10000]

\* The steps at which the strength is below eps.
Faded(s0, steps, par) ==
    {k \in 1..steps : Decayed(s0, k * par.step_s, par.decay_half_life_min) < eps}

\* for k in range(1, steps + 1) of one emitter: the loop runs up to the step
\* before the first faded one (break), each step appending its 11 points.
StepLoop(src, s0, steps, par) ==
    LET faded == Faded(s0, steps, par)
        last == IF faded = {} THEN steps
                ELSE (CHOOSE k \in faded : \A j \in faded : k <= j) - 1
    IN  [i \in 1..(11 * last) |-> Ray(src, ((i - 1) \div 11) + 1, ((i - 1) % 11) + 1, s0, par)]

RECURSIVE PointLoopMutReturn(_, _, _, _)
PointLoopMutReturn(points, src, steps, par) ==
    IF src > Len(points) THEN << >>
    ELSE LET s0 == Max2(0, ToFixed(points[src].strength))
             mine == StepLoop(src, s0, steps, par)
         IN  IF s0 <= 0 THEN PointLoopMutReturn(points, src + 1, steps, par)
             ELSE IF Len(mine) < 11 * steps THEN mine
             ELSE mine \o PointLoopMutReturn(points, src + 1, steps, par)

RECURSIVE PointLoop(_, _, _, _)
\* for p in points, from the emitter at index src on.
PointLoop(points, src, steps, par) ==
    IF src > Len(points) THEN << >>
    ELSE LET s0 == Max2(0, ToFixed(points[src].strength))
         IN  IF s0 <= 0 THEN PointLoop(points, src + 1, steps, par)
             ELSE StepLoop(src, s0, steps, par) \o PointLoop(points, src + 1, steps, par)

\* steps = int((horizon_min * 60) / step_s)
Steps(par) == (par.horizon_min * 60) \div par.step_s

SimulatePlumeMutNoGuard(points, par) == PointLoop(points, 1, Steps(par), par)

\* simulate_plume(points, wind_deg, wind_ms, horizon_min, step_s, base_sigma_m,
\* spread_per_km, decay_half_life_min), the parameters after points as the record par.
SimulatePlume(points, par) ==
    IF par.wind_ms <= 0 \/ points = << >> THEN << >>
    ELSE PointLoop(points, 1, Steps(par), par)

(***************************************************************************)
(* fetch_metar, lines 323-338.  A response of the station's endpoint is    *)
(* [kind |-> "exception"] (requests.get raised or timed out) or            *)
(* [kind |-> "http", status, lines], lines being the stripped body split   *)
(* into lines.                                                             *)
(***************************************************************************)
IsIcao(icao) == Len(icao) = 4 /\ \A i \in 1..4 : icao[i] \in Upper

\* The try block of fetch_metar: the report (second line) or None.
FetchBody(resp) ==
    IF resp.kind = "http" /\ resp.status = 200 /\ Len(resp.lines) >= 2
    THEN Some(resp.lines[2]) ELSE None

NonEmptyText(x) == x # << >>
WrapAll(seq) == [i \in 1..Len(seq) |-> Some(seq[i])]

\* "if m:" of a fetch_metar result.
Truthy(m) == IsSome(m) /\ Val(m) # << >>

\* st.session_state.get(key, default)
Get(state, key, default) == IF IsSome(state[key]) THEN Val(state[key]) ELSE default

\* What a widget returns: the value the user set in it, else its default.
Widget(edit, default) == IF IsSome(edit) THEN Val(edit) ELSE default

VARIABLES
    pc,               \* where the script run is
    session_state,    \* st.session_state: wind_dir_deg, wind_ms, horizon_min, decay_t12
    metar_cache,      \* st.cache_data of fetch_metar: the set of [icao, result] it holds
    sheet_rows,       \* rows (line 39): the sheet's rows after the conversions of lines 44-49
    df,               \* the data frame
    frame0,           \* the data frame as it was after the filters of lines 45 and 52
    has_temp,         \* "Temp" in df.columns
    nearest_icao,     \* None or Some(nearest station)
    custom_icao,      \* the "Override ICAO" text, stripped and upper-cased
    extra_icaos,      \* the items of the "Extra ICAOs" text, stripped and upper-cased
    candidate_icaos,  \* the candidate stations, None for a missing nearest station
    ci,               \* index of the candidate the fetch loop is at
    fetched,          \* the stations fetch_metar was called with in this run, in order
    metar_text,       \* None or Some(report)
    metar_used,       \* None or Some(station)
    use_metar,        \* the "Use METAR wind" checkbox
    edit,             \* per widget of lines 474-500: None, or Some(value) the user set
    m,                \* [dir, ms]: m_dir and m_ms
    ui,               \* the values the widgets of lines 474-500 returned
    emitters,
    plume_pts,
    called,           \* whether simulate_plume was called in this run
    ss0,              \* st.session_state as it was when the run began
    tok               \* the parts of the report handed to the wind parser

persistent == <<session_state, metar_cache>>
dataVars == <<sheet_rows, df, frame0, has_temp>>
chainVars == <<nearest_icao, custom_icao, extra_icaos, candidate_icaos>>
fetchVars == <<chainVars, ci, fetched, metar_text, metar_used>>
inputVars == <<use_metar, edit, m, ui>>
plumeVars == <<emitters, plume_pts, called>>
vars == <<pc, session_state, metar_cache, sheet_rows, df, frame0, has_temp, nearest_icao,
          custom_icao, extra_icaos, candidate_icaos, ci, fetched, metar_text, metar_used, use_metar, edit,
          m, ui, emitters, plume_pts, called, ss0, tok>>

NoUi == [wind_dir_deg |-> None, wind_ms |-> None, horizon_min |-> None, decay_t12 |-> None,
         bg_co2 |-> None, bg_pm |-> None, w_co2 |-> None, w_pm |-> None]
NoEdit == NoUi
NoState == [wind_dir_deg |-> None, wind_ms |-> None, horizon_min |-> None, decay_t12 |-> None]
NoTok == [pre |-> << >>, d |-> << >>, s |-> << >>, g |-> << >>, suf |-> << >>]

\* The variables of one script run, before it has done anything.
FreshRun ==
    /\ sheet_rows = << >>
    /\ df = << >>
    /\ frame0 = << >>
    /\ has_temp = TRUE
    /\ nearest_icao = None
    /\ custom_icao = << >>
    /\ extra_icaos = << >>
    /\ candidate_icaos = << >>
    /\ ci = 1
    /\ fetched = << >>
    /\ metar_text = None
    /\ metar_used = None
    /\ use_metar = TRUE
    /\ edit = NoEdit
    /\ m = [dir |-> None, ms |-> None]
    /\ ui = NoUi
    /\ emitters = << >>
    /\ plume_pts = << >>
    /\ called = FALSE
    /\ tok = NoTok

Init ==
    /\ pc = "idle"
    /\ session_state = NoState
    /\ metar_cache = {}
    /\ ss0 = NoState
    /\ FreshRun

(***************************************************************************)
(* One script run.                                                         *)
(***************************************************************************)
\* Lines 37-52: the sheet is read, rows without a timestamp and rows at the
\* (0,0) GPS position are dropped.  sheets: the sheets that may be read, each
\* [rows, has_temp].
LoadSheet(sheets) ==
    /\ pc = "idle"
    /\ \E sheet \in sheets :
        /\ sheet_rows' = sheet.rows
        /\ df' = GpsFilter(DropNaT(sheet.rows))
        /\ frame0' = GpsFilter(DropNaT(sheet.rows))
        /\ has_temp' = sheet.has_temp
    /\ ss0' = session_state
    /\ pc' = "loaded"
    /\ UNCHANGED <<persistent, fetchVars, inputVars, plumeVars, tok>>

\* Lines 55-61: the latest session; df["BlockID"].iloc[-1] raises IndexError on
\* an empty frame, which the except clause of line 584 catches.
Segment ==
    /\ pc = "loaded"
    /\ IF df = << >>
       THEN pc' = "failed" /\ df' = df
       ELSE pc' = "session" /\ \E sorted \in SortedOrders(df) : df' = LatestBlock(sorted)
    /\ UNCHANGED <<persistent, sheet_rows, frame0, has_temp, fetchVars, inputVars, plumeVars,
                   ss0, tok>>

\* Lines 63-65: st.warning("Waiting for valid sensor data to arrive...") and
\* st.stop(), whose exception is not an Exception and ends the run.
AwaitData ==
    /\ pc = "session"
    /\ (df = << >> \/ ~has_temp)
    /\ pc' = "stopped"
    /\ UNCHANGED <<persistent, dataVars, fetchVars, inputVars, plumeVars, ss0, tok>>

\* df["Lat"].mean() or df["Lon"].mean() is NaN: no row has the coordinate.
CentreIsNaN(rows) ==
    \/ \A i \in 1..Len(rows) : rows[i].lat = None
    \/ \A i \in 1..Len(rows) : rows[i].lon = None

CandidateIcaosMutAppend(nearest, custom, extra) ==
    <<nearest>> \o (IF custom # << >> THEN <<Some(custom)>> ELSE << >>)
    \o WrapAll(SelectSeq(extra, NonEmptyText))

\* Lines 446-448: the override if there is one, else the nearest station, then
\* the non-empty extra items.
CandidateIcaos(nearest, custom, extra) ==
    (IF custom # << >> THEN <<Some(custom)>> ELSE <<nearest>>)
    \o WrapAll(SelectSeq(extra, NonEmptyText))

\* Lines 67-451: the snapshot, charts and maps are drawn (not modelled), the
\* nearest station is found and the candidate list is built.  nearests: what
\* the nearest-station loop may give (None when the centre is NaN); customs
\* and extras: what the two text inputs may hold, an extras value being the
\* comma-separated items.
BuildCandidates(nearests, customs, extras) ==
    /\ pc = "session"
    /\ df # << >> /\ has_temp
    /\ \E nearest \in (IF CentreIsNaN(df) THEN {None} ELSE {Some(x) : x \in nearests}),
          custom \in customs, extra \in extras :
        /\ nearest_icao' = nearest
        /\ custom_icao' = custom
        /\ extra_icaos' = extra
        /\ candidate_icaos' = CandidateIcaos(nearest, custom, extra)
    /\ ci' = 1
    /\ pc' = "fetch"
    /\ UNCHANGED <<persistent, dataVars, fetched, metar_text, metar_used, inputVars,
                   plumeVars, ss0, tok>>

Cached(icao) == {e \in metar_cache : e.icao = icao}

\* Lines 452-458, one turn of the loop over candidate_icaos.  responses: what
\* a station's endpoint may answer.  fetch_metar is cached: a station in the
\* cache is answered from it, any other result is stored.
TryCandidate(responses) ==
    /\ pc = "fetch"
    /\ ci <= Len(candidate_icaos)
    /\ LET candidate == candidate_icaos[ci]
           Take(result) ==
               /\ fetched' = Append(fetched, Val(candidate))
               /\ IF Truthy(result)
                  THEN metar_text' = result /\ metar_used' = candidate
                       /\ pc' = "inputs" /\ ci' = ci
                  ELSE UNCHANGED <<metar_text, metar_used, pc>> /\ ci' = ci + 1
       IN  IF candidate = None
           THEN /\ ci' = ci + 1
                /\ UNCHANGED <<pc, fetched, metar_text, metar_used, metar_cache>>
           ELSE IF Cached(Val(candidate)) # {}
           THEN /\ Take((CHOOSE e \in Cached(Val(candidate)) : TRUE).result)
                /\ UNCHANGED metar_cache
           ELSE \E resp \in responses :
                  LET result == IF IsIcao(Val(candidate)) THEN FetchBody(resp) ELSE None
                  IN  /\ Take(result)
                      /\ metar_cache' = metar_cache \cup
                                            {[icao |-> Val(candidate), result |-> result]}
    /\ UNCHANGED <<session_state, dataVars, chainVars, inputVars, plumeVars, ss0, tok>>

\* The loop over candidate_icaos ends with no report.
NoReport ==
    /\ pc = "fetch"
    /\ ci > Len(candidate_icaos)
    /\ pc' = "inputs"
    /\ UNCHANGED <<persistent, dataVars, fetchVars, inputVars, plumeVars, ss0, tok>>

\* The default of the "Wind Dir" number_input (line 478).
DefaultDir(parsed, state) ==
    IF IsSome(parsed.dir) THEN Val(parsed.dir) ELSE Get(state, "wind_dir_deg", 270)

\* The default of the "Wind Speed" number_input (line 484).
DefaultMs(parsed, state) ==
    IF IsSome(parsed.ms) THEN Val(parsed.ms) ELSE Get(state, "wind_ms", 300)

\* Lines 460-506: the checkbox, the parse of the report, the widgets and the
\* writes to st.session_state.  number_input raises when its default lies
\* outside min_value..max_value, which the except clause of line 584 catches.
\* users: what the user may have set, [use_metar, edit], edit giving for each
\* widget None (left alone) or Some(value).
WindInputs(users) ==
    /\ pc = "inputs"
    /\ \E user \in users :
        LET parsed == IF user.use_metar /\ Truthy(metar_text) THEN ParseWind(metar_text)
                      ELSE [dir |-> None, ms |-> None]
            dir0 == DefaultDir(parsed, session_state)
            ms0 == DefaultMs(parsed, session_state)
            e == user.edit
            got == [wind_dir_deg |-> Some(Widget(e.wind_dir_deg, dir0)),
                    wind_ms |-> Some(Widget(e.wind_ms, ms0)),
                    horizon_min |-> Some(Widget(e.horizon_min,
                                                Get(session_state, "horizon_min", 15))),
                    decay_t12 |-> Some(Widget(e.decay_t12,
                                              Get(session_state, "decay_t12", 12))),
                    bg_co2 |-> Some(Widget(e.bg_co2, 420)),
                    bg_pm |-> Some(Widget(e.bg_pm, 80)),
                    w_co2 |-> Some(Widget(e.w_co2, 6)),
                    w_pm |-> Some(Widget(e.w_pm, 4))]
        IN  /\ use_metar' = user.use_metar
            /\ edit' = e
            /\ m' = parsed
            /\ IF dir0 < 0 \/ dir0 > 359 \/ ms0 < 0
               THEN /\ pc' = "failed"
                    /\ UNCHANGED <<ui, session_state>>
               ELSE /\ pc' = "extract"
                    /\ ui' = got
                    /\ session_state' = [wind_dir_deg |-> got.wind_dir_deg,
                                         wind_ms |-> got.wind_ms,
                                         horizon_min |-> got.horizon_min,
                                         decay_t12 |-> got.decay_t12]
    /\ UNCHANGED <<metar_cache, dataVars, fetchVars, plumeVars, ss0, tok>>

\* Lines 508-533.
Extract ==
    /\ pc = "extract"
    /\ emitters' = Emitters(df, Val(ui.bg_co2), Val(ui.bg_pm), Val(ui.w_co2), Val(ui.w_pm))
    /\ pc' = "simulate"
    /\ UNCHANGED <<persistent, dataVars, fetchVars, inputVars, plume_pts, called, ss0, tok>>

\* The arguments of the call of lines 537-546.
CallPar == [wind_deg |-> Val(ui.wind_dir_deg), wind_ms |-> Val(ui.wind_ms),
            horizon_min |-> Val(ui.horizon_min), step_s |-> 10, base_sigma_m |-> 15,
            spread_per_km |-> 40, decay_half_life_min |-> Val(ui.decay_t12)]

\* Lines 536-582: simulate_plume runs when there are emitters; the plume or
\* the "No significant anomalies" warning is shown.
Simulate ==
    /\ pc = "simulate"
    /\ IF emitters # << >>
       THEN plume_pts' = SimulatePlume(emitters, CallPar) /\ called' = TRUE
       ELSE UNCHANGED <<plume_pts, called>>
    /\ pc' = "done"
    /\ UNCHANGED <<persistent, dataVars, fetchVars, inputVars, emitters, ss0, tok>>

\* st_autorefresh or a widget change starts the script again; cached reports
\* older than the ttl of 120 s are gone.
Rerun ==
    /\ pc \in {"done", "stopped", "failed"}
    /\ pc' = "idle"
    /\ \E kept \in SUBSET metar_cache : metar_cache' = kept
    /\ sheet_rows' = << >> /\ df' = << >> /\ frame0' = << >> /\ has_temp' = TRUE
    /\ nearest_icao' = None /\ custom_icao' = << >> /\ extra_icaos' = << >>
    /\ candidate_icaos' = << >> /\ ci' = 1 /\ fetched' = << >>
    /\ metar_text' = None /\ metar_used' = None
    /\ use_metar' = TRUE /\ edit' = NoEdit /\ m' = [dir |-> None, ms |-> None] /\ ui' = NoUi
    /\ emitters' = << >> /\ plume_pts' = << >> /\ called' = FALSE
    /\ UNCHANGED <<session_state, ss0, tok>>

(***************************************************************************)
(* The inputs the runs are checked with.                                   *)
(***************************************************************************)
KPHL == <<"K", "P", "H", "L">>
KJFK == <<"K", "J", "F", "K">>
KTTN == <<"K", "T", "T", "N">>
BadIcao == <<"P", "H", "L">>

\* A report line around a wind group.
Report(group) == <<"K", "P", "H", "L", " ", "0", "1", "1", "2", "5", "4", "Z", " ">>
                 \o group \o <<" ", "1", "0", "S", "M">>
Wind220 == <<"2", "2", "0", "1", "2", "K", "T">>
WindVrb == <<"V", "R", "B", "0", "3", "K", "T">>
Wind360 == <<"3", "6", "0", "1", "0", "K", "T">>
WindGust == <<"1", "8", "0", "1", "2", "G", "2", "0", "K", "T">>
WindCalm == <<"0", "0", "0", "0", "0", "K", "T">>
NoWind == <<"A", "U", "T", "O">>

Reading(ts, lat, lon, co2, pm) == [ts |-> ts, lat |-> lat, lon |-> lon, co2 |-> co2, pm |-> pm]
Hot(ts) == Reading(Some(ts), Some(39), Some(-75), Some(700), Some(80))
Quiet(ts) == Reading(Some(ts), Some(39), Some(-75), Some(420), Some(80))
NoFix(ts) == Reading(Some(ts), Some(0), Some(0), Some(700), Some(80))

\* The sequences over items of length at most n.
RECURSIVE SeqsUpTo(_, _)
SeqsUpTo(items, n) ==
    IF n = 0 THEN {<< >>}
    ELSE LET shorter == SeqsUpTo(items, n - 1)
         IN  shorter \cup {Append(q, x) : q \in shorter, x \in items}

\* The runs of Spec: the wind inputs and what is kept from run to run.
WindSheets == {[rows |-> << >>, has_temp |-> TRUE],
               [rows |-> <<NoFix(0)>>, has_temp |-> TRUE],
               [rows |-> <<Hot(0)>>, has_temp |-> FALSE],
               [rows |-> <<Quiet(0)>>, has_temp |-> TRUE],
               [rows |-> <<Hot(0)>>, has_temp |-> TRUE]}
WindResponses == {[kind |-> "exception"]}
                 \cup {[kind |-> "http", status |-> 200, lines |-> <<KPHL, Report(g)>>] :
                          g \in {Wind220, WindVrb, Wind360, WindCalm, NoWind}}
WindUsers == {[use_metar |-> u, edit |-> e] :
                 u \in BOOLEAN,
                 e \in {NoEdit,
                        [NoEdit EXCEPT !.wind_dir_deg = Some(90), !.wind_ms = Some(0),
                                       !.horizon_min = Some(5), !.decay_t12 = Some(5)]}}

Next ==
    \/ LoadSheet(WindSheets)
    \/ Segment
    \/ AwaitData
    \/ BuildCandidates({KPHL}, {<< >>}, {<< >>})
    \/ TryCandidate(WindResponses)
    \/ NoReport
    \/ WindInputs(WindUsers)
    \/ Extract
    \/ Simulate
    \/ Rerun

Spec == Init /\ [][Next]_vars

\* The runs of SpecChain: the candidate stations and their fetches.
MaxExtras == 2

NoLat(ts) == Reading(Some(ts), None, Some(-75), Some(700), Some(80))

ChainSheets == {[rows |-> <<Hot(0)>>, has_temp |-> TRUE],
                [rows |-> <<Hot(0)>>, has_temp |-> FALSE],
                [rows |-> <<NoLat(0)>>, has_temp |-> TRUE]}
ChainExtras == SeqsUpTo({KTTN, BadIcao, << >>}, MaxExtras)
ChainResponses == {[kind |-> "exception"],
                   [kind |-> "http", status |-> 404, lines |-> <<KPHL>>],
                   [kind |-> "http", status |-> 200, lines |-> <<KPHL>>],
                   [kind |-> "http", status |-> 200, lines |-> <<KPHL, << >> >>],
                   [kind |-> "http", status |-> 200, lines |-> <<KPHL, Report(Wind220)>>]}
CalmUser == [use_metar |-> TRUE, edit |-> [NoEdit EXCEPT !.wind_ms = Some(0)]]

NextChain ==
    \/ LoadSheet(ChainSheets)
    \/ Segment
    \/ AwaitData
    \/ BuildCandidates({KPHL}, {<< >>, KJFK}, ChainExtras)
    \/ TryCandidate(ChainResponses)
    \/ NoReport
    \/ WindInputs({CalmUser})
    \/ Extract
    \/ Simulate
    \/ Rerun

SpecChain == Init /\ [][NextChain]_vars

\* The runs of SpecData: the sheet's rows, with the network down.
MaxRows == 3

DataPool == {Hot(0),
             Quiet(0),
             Reading(Some(121), Some(39), Some(-75), Some(400), Some(90)),
             Reading(Some(241), Some(39), Some(-75), Some(450), Some(80)),
             Hot(362),
             Reading(Some(391), Some(39), Some(-75), None, Some(80)),
             NoLat(420),
             NoFix(520),
             Reading(Some(520), Some(0), Some(-75), Some(700), Some(80)),
             Reading(None, Some(39), Some(-75), Some(700), Some(80))}
DataSheets == {[rows |-> r, has_temp |-> TRUE] : r \in SeqsUpTo(DataPool, MaxRows)}
              \cup {[rows |-> <<Hot(0)>>, has_temp |-> FALSE]}
DataUsers == {[use_metar |-> TRUE, edit |-> e] :
                 e \in {[NoEdit EXCEPT !.wind_ms = Some(0)],
                        [NoEdit EXCEPT !.wind_ms = Some(0), !.w_co2 = Some(0), !.w_pm = Some(0)],
                        [NoEdit EXCEPT !.wind_ms = Some(0), !.w_co2 = Some(0), !.w_pm = Some(10),
                                       !.bg_co2 = Some(450), !.bg_pm = Some(0)]}}

NextData ==
    \/ LoadSheet(DataSheets)
    \/ Segment
    \/ AwaitData
    \/ BuildCandidates({KPHL}, {<< >>}, {<< >>})
    \/ TryCandidate({[kind |-> "exception"]})
    \/ NoReport
    \/ WindInputs(DataUsers)
    \/ Extract
    \/ Simulate
    \/ Rerun

SpecData == Init /\ [][NextData]_vars

(***************************************************************************)
(* simulate_plume and parse_wind_from_metar on their own: the arguments    *)
(* are drawn at the start and the function is called once.                 *)
(***************************************************************************)
MaxPoints == 2

Strengths == {Frac(-1, 2), Frac(0, 1), Frac(1, 100), Frac(3, 100), Frac(1, 2), Frac(5, 1)}
PlumePoints == {[lat |-> 39, lon |-> -75, strength |-> x] : x \in Strengths}
PlumeWidgets == {[NoUi EXCEPT !.wind_dir_deg = Some(270), !.wind_ms = Some(w),
                              !.horizon_min = Some(h), !.decay_t12 = Some(t)] :
                    w \in {-100, 0, 300}, h \in {5, 15}, t \in {0, 5, 12}}

InitPlume ==
    /\ pc = "call"
    /\ session_state = NoState
    /\ metar_cache = {}
    /\ ss0 = NoState
    /\ sheet_rows = << >> /\ df = << >> /\ frame0 = << >> /\ has_temp = TRUE
    /\ nearest_icao = None /\ custom_icao = << >> /\ extra_icaos = << >>
    /\ candidate_icaos = << >> /\ ci = 1 /\ fetched = << >>
    /\ metar_text = None /\ metar_used = None
    /\ use_metar = TRUE /\ edit = NoEdit /\ m = [dir |-> None, ms |-> None]
    /\ ui \in PlumeWidgets
    /\ emitters \in SeqsUpTo(PlumePoints, MaxPoints)
    /\ plume_pts = << >>
    /\ called = FALSE
    /\ tok = NoTok

\* A call of simulate_plume(emitters, ...).
CallSimulatePlume ==
    /\ pc = "call"
    /\ plume_pts' = SimulatePlume(emitters, CallPar)
    /\ called' = TRUE
    /\ pc' = "returned"
    /\ UNCHANGED <<persistent, dataVars, fetchVars, inputVars, emitters, ss0, tok>>

SpecPlume == InitPlume /\ [][CallSimulatePlume]_vars

\* The extraction and the simulation of a run whose sheet is a burst: more
\* than one reading a second, so that the last minute holds more than 80.
MaxBurst == 84

\* Row i of a burst, two readings a second.  Every every-th row (none when
\* every = 0) is in turn a reading of CO2 450, a reading without a latitude
\* and a reading without a CO2 value; the others differ in their CO2.
BurstRow(i, every) ==
    LET ts == Some((i - 1) \div 2)
    IN  IF every > 0 /\ i % every = 0
        THEN CASE (i \div every) % 3 = 1 -> Reading(ts, Some(39), Some(-75), Some(450), Some(80))
               [] (i \div every) % 3 = 2 -> NoLat((i - 1) \div 2)
               [] OTHER -> Reading(ts, Some(39), Some(-75), None, Some(80))
        ELSE Reading(ts, Some(39), Some(-75), Some(600 + i), Some(80))

Bursts == {[i \in 1..n |-> BurstRow(i, every)] :
              n \in (MaxBurst - 6)..MaxBurst, every \in {0, 7, 30, 45}}

\* The run of a burst sheet at line 508: the one station was tried and gave
\* nothing, the widgets were read and their values persisted.
InitExtract ==
    /\ pc = "extract"
    /\ sheet_rows \in Bursts
    /\ df = sheet_rows /\ frame0 = sheet_rows /\ has_temp = TRUE
    /\ nearest_icao = Some(KPHL) /\ custom_icao = << >> /\ extra_icaos = << >>
    /\ candidate_icaos = <<Some(KPHL)>> /\ ci = 2 /\ fetched = <<KPHL>>
    /\ metar_text = None /\ metar_used = None
    /\ metar_cache = {[icao |-> KPHL, result |-> None]}
    /\ use_metar = TRUE
    /\ m = [dir |-> None, ms |-> None]
    /\ \E user \in DataUsers :
          /\ edit = user.edit
          /\ ui = [wind_dir_deg |-> Some(Widget(edit.wind_dir_deg, DefaultDir(m, NoState))),
                   wind_ms |-> Some(Widget(edit.wind_ms, DefaultMs(m, NoState))),
                   horizon_min |-> Some(Widget(edit.horizon_min, Get(NoState, "horizon_min", 15))),
                   decay_t12 |-> Some(Widget(edit.decay_t12, Get(NoState, "decay_t12", 12))),
                   bg_co2 |-> Some(Widget(edit.bg_co2, 420)),
                   bg_pm |-> Some(Widget(edit.bg_pm, 80)),
                   w_co2 |-> Some(Widget(edit.w_co2, 6)),
                   w_pm |-> Some(Widget(edit.w_pm, 4))]
    /\ session_state = [wind_dir_deg |-> ui.wind_dir_deg, wind_ms |-> ui.wind_ms,
                        horizon_min |-> ui.horizon_min, decay_t12 |-> ui.decay_t12]
    /\ ss0 = NoState
    /\ emitters = << >> /\ plume_pts = << >> /\ called = FALSE
    /\ tok = NoTok

NextExtract ==
    \/ Extract
    \/ Simulate

SpecExtract == InitExtract /\ [][NextExtract]_vars

T3(a, b, c) == <<a, b, c>>
Toks == {[pre |-> p, d |-> d, s |-> sp, g |-> g, suf |-> x] :
            p \in {<< >>, <<"K", "P", "H", "L", " ">>, <<"X">>},
            d \in {T3("2", "2", "0"), T3("1", "8", "0"), T3("V", "R", "B"), T3("0", "0", "0"),
                   T3("9", "9", "9"), <<"2", "2">>},
            sp \in {<<"1", "2">>, <<"0", "3">>, <<"1", "3">>, T3("1", "2", "0"), <<"5">>},
            g \in {<< >>, T3("G", "2", "0"), <<"G", "1", "2", "0">>, <<"G", "2">>},
            x \in {<<"K", "T">>, <<"K", "T", " ", "1", "0", "S", "M">>, T3("K", "T", "S"),
                   T3("M", "P", "S")}}
        \cup {NoTok}

InitParse ==
    /\ pc = "call"
    /\ session_state = NoState
    /\ metar_cache = {}
    /\ ss0 = NoState
    /\ sheet_rows = << >> /\ df = << >> /\ frame0 = << >> /\ has_temp = TRUE
    /\ nearest_icao = None /\ custom_icao = << >> /\ extra_icaos = << >>
    /\ candidate_icaos = << >> /\ ci = 1 /\ fetched = << >>
    /\ tok \in Toks
    /\ metar_text = Some(Concat(<<tok.pre, tok.d, tok.s, tok.g, tok.suf>>))
    /\ metar_used = None
    /\ use_metar = TRUE /\ edit = NoEdit /\ m = [dir |-> None, ms |-> None]
    /\ ui = NoUi
    /\ emitters = << >>
    /\ plume_pts = << >>
    /\ called = FALSE

\* A call of parse_wind_from_metar(metar_text).
CallParseWind ==
    /\ pc = "call"
    /\ m' = ParseWind(metar_text)
    /\ pc' = "returned"
    /\ UNCHANGED <<persistent, dataVars, fetchVars, use_metar, edit, ui, plumeVars, ss0, tok>>

SpecParse == InitParse /\ [][CallParseWind]_vars

(***************************************************************************)
(* The claims.                                                             *)
(***************************************************************************)
RowsOf(q) == {q[i] : i \in 1..Len(q)}

\* The run has passed line 61 with a frame that held rows.
Segmented == frame0 # << >> /\ pc \notin {"idle", "loaded"}

\* C1: for a non-empty set of readings, the block kept after segmentation holds
\* only readings of the input, holds the reading with the latest timestamp, is
\* in ascending order with no gap above gap_threshold between neighbours, and
\* every reading left out lies more than gap_threshold before the block's first
\* reading (a gap equal to the threshold does not start a new block).
C1_LatestSession ==
    Segmented =>
        /\ df # << >>
        /\ RowsOf(df) \subseteq RowsOf(frame0)
        /\ Len(df) = Cardinality({i \in 1..Len(frame0) : frame0[i] \in RowsOf(df)})
        /\ \E i \in 1..Len(df) : Val(df[i].ts) = MaxTs(frame0)
        /\ \A i \in 1..(Len(df) - 1) :
              /\ Val(df[i + 1].ts) - Val(df[i].ts) >= 0
              /\ Val(df[i + 1].ts) - Val(df[i].ts) <= gap_threshold
        /\ \A r \in RowsOf(frame0) \ RowsOf(df) :
              Val(df[1].ts) - Val(r.ts) > gap_threshold

\* A block of two readings 120 s apart (the threshold itself), cut off from a
\* third reading 121 s before it.
C1_Witness ==
    /\ Segmented
    /\ Len(frame0) = 3
    /\ Len(df) = 2
    /\ Val(df[2].ts) - Val(df[1].ts) = gap_threshold
    /\ \E r \in RowsOf(frame0) \ RowsOf(df) : Val(df[1].ts) - Val(r.ts) = gap_threshold + 1

\* C2: when no reading survives the timestamp and position filters, the
\* segmentation gives an empty block without raising and the run ends with the
\* "Waiting for valid sensor data" warning and st.stop(), not in the except
\* clause.
C2_EmptyInputAwaitsData ==
    (frame0 = << >> /\ pc \notin {"idle", "loaded"}) => (pc \in {"session", "stopped"} /\ df = << >>)

\* The run has passed the emitter extraction of lines 512-533.
Extracted == pc \in {"simulate", "done"}

\* The hazard column of a row of the working subset, with this run's inputs.
HazardOf(r) == Hazard(r, Val(ui.bg_co2), Val(ui.bg_pm), Val(ui.w_co2), Val(ui.w_pm))

\* No row of the working subset has a hazard of global_activation or more.
BelowActivation ==
    \A i \in 1..Len(WorkingSubset(df)) :
        LET h == HazardOf(WorkingSubset(df)[i])
        IN  IsSome(h) => ~FGe(Val(h), global_activation)

\* C3, as stated: every reading of the working subset has a hazard score, and
\* it is >= 0; and when the maximum hazard is below 0.08 the emitter list is
\* empty and simulate_plume is not called.
C3_HazardNonNegative ==
    Extracted =>
        /\ \A i \in 1..Len(WorkingSubset(df)) :
              LET h == HazardOf(WorkingSubset(df)[i])
              IN  IsSome(h) /\ FGe(Val(h), FZero)
        /\ BelowActivation => (emitters = << >> /\ ~called /\ plume_pts = << >>)

\* C3, amended: a reading of the working subset has a hazard score exactly when
\* its CO2 and its PM2.5 are both present (a missing channel gives NaN, not a
\* number >= 0); a score is >= 0, and with CO2 equal to the background it is
\* the PM2.5 term alone; and when no score reaches 0.08 the emitter list is
\* empty and simulate_plume is not called.
C3_HazardNonNegativeWherePresent ==
    Extracted =>
        /\ \A i \in 1..Len(WorkingSubset(df)) :
              LET r == WorkingSubset(df)[i]
                  h == HazardOf(r)
              IN  /\ IsSome(h) <=> (IsSome(r.co2) /\ IsSome(r.pm))
                  /\ IsSome(h) => FGe(Val(h), FZero)
                  /\ (IsSome(h) /\ Val(r.co2) = Val(ui.bg_co2)) =>
                        Val(h) = FMul(NormW(Val(ui.w_pm), WSum(Val(ui.w_co2), Val(ui.w_pm))),
                                      Frac(Max2(0, Val(r.pm) - Val(ui.bg_pm)), 350))
        /\ BelowActivation => (emitters = << >> /\ ~called /\ plume_pts = << >>)

\* A finished run whose working subset holds a reading with CO2 under the
\* background and a hazard above 0 and under 0.08: no emitter, no simulation.
C3_Witness ==
    /\ pc = "done"
    /\ df # << >>
    /\ \E i \in 1..Len(WorkingSubset(df)) :
          LET r == WorkingSubset(df)[i]
          IN  /\ IsSome(r.co2) /\ Val(r.co2) < Val(ui.bg_co2)
              /\ IsSome(HazardOf(r)) /\ FGt(Val(HazardOf(r)), FZero)
    /\ BelowActivation
    /\ emitters = << >>
    /\ ~called

\* The steps of emitter i that have a point in the output.
StepsOf(i) == {plume_pts[j].k : j \in {n \in 1..Len(plume_pts) : plume_pts[n].src = i}}

\* float(p["strength"]) of emitter i, in 1/10000.
StrengthOf(i) == ToFixed(emitters[i].strength)

\* C4: simulate_plume returns an empty list when the wind speed is <= 0, for
\* any emitter list, and when the emitter list is empty, for any wind; in
\* every other case an emitter of strength > 0 whose strength at the first
\* step is at least 0.02 has at least one point in the output.
C4_PlumeGuard ==
    pc = "returned" =>
        /\ (Val(ui.wind_ms) <= 0 \/ emitters = << >>) => plume_pts = << >>
        /\ Val(ui.wind_ms) > 0 =>
              \A i \in 1..Len(emitters) :
                  (StrengthOf(i) > 0
                     /\ Decayed(StrengthOf(i), CallPar.step_s, Val(ui.decay_t12)) >= eps)
                  => StepsOf(i) # {}

\* A call with wind speed 0 and an emitter of strength 5 returned no point.
C4_Witness ==
    /\ pc = "returned"
    /\ Val(ui.wind_ms) = 0
    /\ \E i \in 1..Len(emitters) : emitters[i].strength = Frac(5, 1)
    /\ plume_pts = << >>

\* C5: with wind, the steps at which an emitter has points are the steps 1..m
\* before the first step at which its decayed strength is below 0.02 (all
\* steps when there is none, whatever the other emitters did); each such step
\* has exactly 11 points; the output holds at most 11 * steps * emitters.
C5_EarlyStop ==
    pc = "returned" =>
        /\ \A i \in 1..Len(emitters) :
              LET mine == StepsOf(i)
              IN  /\ \E last \in 0..Steps(CallPar) : mine = 1..last
                  /\ (Val(ui.wind_ms) > 0 /\ StrengthOf(i) > 0) =>
                        mine = {k \in 1..Steps(CallPar) :
                                   \A j \in 1..k :
                                       Decayed(StrengthOf(i), j * CallPar.step_s,
                                               Val(ui.decay_t12)) >= eps}
                  /\ \A k \in mine :
                        Cardinality({n \in 1..Len(plume_pts) :
                                        plume_pts[n].src = i /\ plume_pts[n].k = k}) = 11
        /\ Len(plume_pts) <= 11 * Steps(CallPar) * Len(emitters)

\* The first emitter stopped early, after some steps; the second ran all steps.
C5_Witness ==
    /\ pc = "returned"
    /\ Len(emitters) >= 2
    /\ StepsOf(1) # {}
    /\ Cardinality(StepsOf(1)) < Steps(CallPar)
    /\ StepsOf(2) = 1..Steps(CallPar)

\* The report holds a token (VRB|DDD)SS[S][Gxx]KT between word boundaries.
WellFormed(t) ==
    /\ t.pre \in {<< >>, <<"K", "P", "H", "L", " ">>}
    /\ t.d \in {T3("2", "2", "0"), T3("1", "8", "0"), T3("V", "R", "B"), T3("0", "0", "0"),
                T3("9", "9", "9")}
    /\ t.s \in {<<"1", "2">>, <<"0", "3">>, <<"1", "3">>, T3("1", "2", "0")}
    /\ t.g \in {<< >>, T3("G", "2", "0"), <<"G", "1", "2", "0">>}
    /\ t.suf \in {<<"K", "T">>, <<"K", "T", " ", "1", "0", "S", "M">>}

\* The report holds no such token: a letter runs into it, KT is not its end,
\* or the speed or the gust group is too short.
Tokenless(t) ==
    \/ t = NoTok
    \/ t.pre = <<"X">>
    \/ t.suf \in {T3("K", "T", "S"), T3("M", "P", "S")}
    \/ t.s = <<"5">>
    \/ t.g = <<"G", "2">>

\* The direction group as an integer, null for VRB.
DirOf(d) ==
    CASE d = T3("2", "2", "0") -> Some(220)
      [] d = T3("1", "8", "0") -> Some(180)
      [] d = T3("0", "0", "0") -> Some(0)
      [] d = T3("9", "9", "9") -> Some(999)
      [] d = T3("V", "R", "B") -> None

\* knots * 0.514444 rounded to 2 decimals, in 1/100 m/s: 12 kt = 6.173328,
\* 3 kt = 1.543332, 13 kt = 6.687772, 120 kt = 61.73328.
MsOf(sp) ==
    CASE sp = <<"1", "2">> -> Some(617)
      [] sp = <<"0", "3">> -> Some(154)
      [] sp = <<"1", "3">> -> Some(669)
      [] sp = T3("1", "2", "0") -> Some(6173)

\* C6: for a report with a token (VRB|DDD)SS[S][Gxx]KT the parser returns the
\* direction null for VRB and else the three-digit group as an integer, and
\* the speed knots * 0.514444 rounded to 2 decimals whatever the gust group;
\* 22012KT gives (220, 6.17), VRB03KT (null, 1.54), 18012G20KT (180, 6.17);
\* an empty report and a report without such a token give (null, null).
C6_WindParser ==
    pc = "returned" =>
        /\ WellFormed(tok) => m = [dir |-> DirOf(tok.d), ms |-> MsOf(tok.s)]
        /\ metar_text = Some(Wind220) => m = [dir |-> Some(220), ms |-> Some(617)]
        /\ metar_text = Some(WindVrb) => m = [dir |-> None, ms |-> Some(154)]
        /\ metar_text = Some(WindGust) => m = [dir |-> Some(180), ms |-> Some(617)]
        /\ Tokenless(tok) => m = [dir |-> None, ms |-> None]

\* The parser returned (180, 6.17) for 18012G20KT.
C6_Witness ==
    /\ pc = "returned"
    /\ metar_text = Some(WindGust)
    /\ m = [dir |-> Some(180), ms |-> Some(617)]

\* What the cached fetch_metar holds for a station.
ResultOf(icao) == (CHOOSE e \in Cached(icao) : TRUE).result

\* The run has left the loop over the candidates.
LoopDone == pc \in {"inputs", "extract", "simulate", "done"}

\* The stations to try: the override when given, else the nearest station
\* (when there is one), then the extra identifiers in the order given.
ToTry ==
    (IF custom_icao # << >> THEN <<custom_icao>>
     ELSE IF IsSome(nearest_icao) THEN <<Val(nearest_icao)>> ELSE << >>)
    \o SelectSeq(extra_icaos, NonEmptyText)

\* C7: the stations are fetched in the order override-or-nearest, then the
\* extras as given; a station without data is skipped and the next is tried;
\* fetching stops at the first station with data, which is the source, so no
\* station after it is fetched; when no station has data, all were tried and
\* the report and the source are null.
C7_CandidateChain ==
    LoopDone =>
        /\ Len(fetched) <= Len(ToTry)
        /\ fetched = SubSeq(ToTry, 1, Len(fetched))
        /\ \A i \in 1..Len(fetched) : Cached(fetched[i]) # {}
        /\ \A i \in 1..(Len(fetched) - 1) : ~Truthy(ResultOf(fetched[i]))
        /\ IF IsSome(metar_used)
           THEN /\ fetched # << >>
                /\ Val(metar_used) = fetched[Len(fetched)]
                /\ Truthy(metar_text)
                /\ metar_text = ResultOf(Val(metar_used))
           ELSE /\ metar_text = None
                /\ fetched = ToTry
                /\ \A i \in 1..Len(fetched) : ~Truthy(ResultOf(fetched[i]))

\* An override and two extras: the override gave no data, the first extra did
\* and is the source, the second extra was not fetched.
C7_Witness ==
    /\ LoopDone
    /\ custom_icao # << >>
    /\ Len(ToTry) = 3
    /\ Len(fetched) = 2
    /\ metar_used = Some(ToTry[2])
    /\ ~Truthy(ResultOf(ToTry[1]))

\* The run has a session to work on: rows and the Temp column.
HasSession == frame0 # << >> /\ has_temp /\ pc \notin {"idle", "loaded"}

\* C8: with a non-empty session, whatever the fetches do and whatever the
\* report holds, the run does not end in the except clause, and the direction
\* and the speed the wind inputs give are in 0..359 and >= 0.
C8_WindNeverAborts ==
    HasSession =>
        /\ pc # "failed"
        /\ pc \in {"extract", "simulate", "done"} =>
              /\ Val(ui.wind_dir_deg) \in 0..359
              /\ Val(ui.wind_ms) >= 0

\* C9: when the report has a VRB token and METAR use is on, the direction
\* handed on is not null, and the direction and the speed are both the
\* manual or last-used ones (270 and 3.0 at first), or the speed is zero.
C9_VariableFallsBack ==
    (pc \in {"extract", "simulate", "done"} /\ use_metar /\ Truthy(metar_text)
       /\ m.dir = None /\ IsSome(m.ms)) =>
        /\ IsSome(ui.wind_dir_deg)
        /\ \/ /\ Val(ui.wind_dir_deg) = Widget(edit.wind_dir_deg, Get(ss0, "wind_dir_deg", 270))
              /\ Val(ui.wind_ms) = Widget(edit.wind_ms, Get(ss0, "wind_ms", 300))
           \/ Val(ui.wind_ms) = 0

\* The run got to the wind inputs and has ended.
WindStageEnded == pc = "done" \/ (pc = "failed" /\ frame0 # << >>)

\* C10: when a run that got to the wind inputs ends, st.session_state holds
\* the direction, speed, horizon and half-life of that run; a value the
\* report does not give has the state's value at the start of the run as its
\* default (270, 3.0, 15, 12 when the state has none); a run that stops before
\* the wind inputs leaves the state as it was.
C10_Persistence ==
    /\ WindStageEnded =>
          /\ \A key \in DOMAIN session_state : IsSome(ui[key]) /\ session_state[key] = ui[key]
    /\ pc \in {"extract", "simulate", "done"} =>
          /\ m.dir = None =>
                Val(ui.wind_dir_deg) = Widget(edit.wind_dir_deg, Get(ss0, "wind_dir_deg", 270))
          /\ m.ms = None =>
                Val(ui.wind_ms) = Widget(edit.wind_ms, Get(ss0, "wind_ms", 300))
          /\ Val(ui.horizon_min) = Widget(edit.horizon_min, Get(ss0, "horizon_min", 15))
          /\ Val(ui.decay_t12) = Widget(edit.decay_t12, Get(ss0, "decay_t12", 12))
    /\ (pc = "stopped" \/ (pc = "failed" /\ frame0 = << >>)) => session_state = ss0

\* The run has read the weight sliders and normalised the weights (line 510).
Normalised == pc \in {"extract", "simulate", "done"}

\* C11: for all weights of the two sliders, both 0 included, the divisor of
\* the normalisation is not zero, the normalised weights used in the hazard
\* are each >= 0, and they sum to 1.
C11_WeightsSumToOne ==
    Normalised =>
        LET w_sum == WSum(Val(ui.w_co2), Val(ui.w_pm))
            n_co2 == NormW(Val(ui.w_co2), w_sum)
            n_pm == NormW(Val(ui.w_pm), w_sum)
        IN  /\ w_sum # 0
            /\ FGe(n_co2, FZero)
            /\ FGe(n_pm, FZero)
            /\ FAdd(n_co2, n_pm) = Frac(1, 1)

\* The (0,0) position of a receiver without a fix.
IsSentinel(r) == r.lat = Some(0) /\ r.lon = Some(0)
HasFix(r) == ~IsSentinel(r)

\* C13: of the sheet's readings with a timestamp, the frame that goes into the
\* segmentation holds, in the sheet's order, exactly those whose position is
\* not (0,0); a reading with one coordinate 0 and the other not is in it.
C13_SentinelFilter ==
    pc # "idle" =>
        /\ frame0 = SelectSeq(DropNaT(sheet_rows), HasFix)
        /\ \A i \in 1..Len(sheet_rows) :
              LET r == sheet_rows[i]
              IN  (HasTimestamp(r) /\ (r.lat = Some(0)) # (r.lon = Some(0))) => r \in RowsOf(frame0)

\* The rows of the working subset dd that qualify as emitters: a hazard above
\* the per-point activation, a latitude and a longitude.
Qualifying(dd) ==
    {i \in 1..Len(dd) :
        /\ IsSome(HazardOf(dd[i])) /\ FGt(Val(HazardOf(dd[i])), point_activation)
        /\ IsSome(dd[i].lat) /\ IsSome(dd[i].lon)}

\* Of the rows q, those with fewer than 80 rows of q after them.
Latest80(q) == {i \in q : Cardinality({j \in q : j > i}) < 80}

\* C12: when some hazard of the working subset is 0.08 or more, the emitters
\* are, in order, the qualifying readings (hazard > 0.1, latitude and
\* longitude present) with their position and their hazard as strength; they
\* are at most 80, and of more than 80 qualifying readings they are the 80
\* with the latest timestamps, in timestamp order.
C12_ActivationAndCap ==
    (Extracted /\ df # << >> /\ ~BelowActivation) =>
        LET dd == WorkingSubset(df)
            q == Qualifying(dd)
            kept == Latest80(q)
        IN  /\ Len(emitters) <= 80
            /\ Len(emitters) = Cardinality(kept)
            /\ Cardinality(q) <= 80 => kept = q
            /\ \A i \in kept :
                  /\ emitters[Cardinality({x \in kept : x <= i})] =
                        [lat |-> Val(dd[i].lat), lon |-> Val(dd[i].lon),
                         strength |-> Val(HazardOf(dd[i]))]
                  /\ \A j \in q \ kept : Val(dd[j].ts) <= Val(dd[i].ts)
                  /\ \A j \in kept : j < i => Val(dd[j].ts) <= Val(dd[i].ts)

\* A finished run with more than 80 qualifying readings and readings that do
\* not qualify among them: 80 emitters, the first qualifying reading left out.
C12_Witness ==
    /\ pc = "done"
    /\ called
    /\ LET dd == WorkingSubset(df)
           q == Qualifying(dd)
           kept == Latest80(q)
       IN  /\ Cardinality(q) > 80
           /\ Len(emitters) = 80
           /\ \E i \in q \ kept, j \in (1..Len(dd)) \ q, k \in kept : i < j /\ j < k

=============================================================================
